---- MODULE Spec2Model ----
(***************************************************************************)
(* Model of seller.py: synchronisation of a vendor's stock spreadsheet     *)
(* with an Ozon seller account.                                            *)
(*                                                                         *)
(* Python strings whose characters the code inspects (quantities, prices)  *)
(* are sequences of one-character strings; strings the code only compares  *)
(* for equality (offer ids, cursors) are TLA+ strings.                     *)
(***************************************************************************)
EXTENDS Integers, Sequences, FiniteSets, TLC

VARIABLES
    args,           \* arguments of the pure function under test
    ret,            \* what that function returned (or raised)
    pc,             \* position of main / get_offer_ids
    srv,            \* the marketplace's catalogue behaviour
    last_id,        \* get_offer_ids: cursor variable
    product_list,   \* get_offer_ids: accumulated products
    offer_ids,      \* list returned by get_offer_ids (mutated by create_stocks)
    requests,       \* history: last_id sent with each list call
    responses,      \* history: last_id received from each list call
    list_calls,     \* history: number of list calls issued (saturates at CallCap)
    file_exists,    \* ./ostatki.xls is on disk
    watch_remnants, \* main: rows returned by download_stock
    stocks,         \* main: result of create_stocks
    prices,         \* main: result of create_prices
    pending,        \* main: batches of the running for-loop not yet submitted
    market,         \* batches the marketplace has applied
    calls,          \* history: outbound calls issued by main, in order
    caught          \* which except clause of main reported

vars == <<args, ret, pc, srv, last_id, product_list, offer_ids, requests,
          responses, list_calls, file_exists, watch_remnants, stocks, prices,
          pending, market, calls, caught>>

(***************************************************************************)
(* Bounds                                                                  *)
(***************************************************************************)
MaxRows == 2        \* vendor rows given to create_stocks / create_prices
MaxLen == 4         \* length of the list given to divide
MaxN == 5           \* chunk sizes given to divide range over -MaxN..MaxN

(***************************************************************************)
(* Sequence helpers                                                        *)
(***************************************************************************)
Range(s) == {s[i] : i \in DOMAIN s}

NoDup(s) == \A i, j \in DOMAIN s : s[i] = s[j] => i = j

Min(a, b) == IF a < b THEN a ELSE b

\* x in lst
In(x, lst) == \E i \in DOMAIN lst : lst[i] = x

\* lst.index(x), for x in lst
IndexOf(x, lst) == CHOOSE i \in DOMAIN lst : lst[i] = x /\ \A j \in 1..(i - 1) : lst[j] # x

\* lst.remove(x): delete the first occurrence
Remove(lst, x) ==
    LET k == IndexOf(x, lst)
    IN  [i \in 1..(Len(lst) - 1) |-> IF i < k THEN lst[i] ELSE lst[i + 1]]

\* lst[i:j] with 0-based Python bounds, 0 <= i
Slice(lst, i, j) ==
    LET hi == Min(j, Len(lst))
    IN  IF hi <= i THEN <<>> ELSE [k \in 1..(hi - i) |-> lst[i + k]]

(***************************************************************************)
(* Strings as character sequences                                          *)
(***************************************************************************)
Digits == {"0", "1", "2", "3", "4", "5", "6", "7", "8", "9"}

DigitVal(c) ==
    CASE c = "0" -> 0 [] c = "1" -> 1 [] c = "2" -> 2 [] c = "3" -> 3
      [] c = "4" -> 4 [] c = "5" -> 5 [] c = "6" -> 6 [] c = "7" -> 7
      [] c = "8" -> 8 [] c = "9" -> 9

IsIntLiteral(s) == Len(s) > 0 /\ \A i \in DOMAIN s : s[i] \in Digits

RECURSIVE IntOf(_)
IntOf(s) ==
    IF Len(s) = 0 THEN 0
    ELSE 10 * IntOf(SubSeq(s, 1, Len(s) - 1)) + DigitVal(s[Len(s)])

\* price.split(".")[0]
BeforePeriod(s) ==
    IF \E i \in DOMAIN s : s[i] = "."
    THEN SubSeq(s, 1, (CHOOSE i \in DOMAIN s : s[i] = "." /\ \A j \in 1..(i - 1) : s[j] # ".") - 1)
    ELSE s

\* re.sub("[^0-9]", "", s)
RECURSIVE OnlyDigits(_)
OnlyDigits(s) ==
    IF Len(s) = 0 THEN <<>>
    ELSE IF Head(s) \in Digits THEN <<Head(s)>> \o OnlyDigits(Tail(s))
    ELSE OnlyDigits(Tail(s))

price_conversion(price) == OnlyDigits(BeforePeriod(price))

(***************************************************************************)
(* create_stocks                                                           *)
(***************************************************************************)
GT10 == <<">", "1", "0">>
ONE == <<"1">>

\* the if / elif / else on count; int() raises ValueError on a non-literal
StockOf(count) ==
    IF count = GT10 THEN [err |-> "none", stock |-> 100]
    ELSE IF count = ONE THEN [err |-> "none", stock |-> 0]
    ELSE IF IsIntLiteral(count) THEN [err |-> "none", stock |-> IntOf(count)]
    ELSE [err |-> "ValueError", stock |-> 0]

\* mutation: the matched identifier stays in the list
AfterMatchKept(ids, code) == ids

\* offer_ids.remove(...) after a matched row
AfterMatch(ids, code) == Remove(ids, code)

\* the first for-loop: rows still to visit, the (mutated) offer_ids, stocks so far
RECURSIVE StocksLoop(_, _, _)
StocksLoop(rows, ids, acc) ==
    IF Len(rows) = 0 THEN [err |-> "none", stocks |-> acc, offer_ids |-> ids]
    ELSE LET watch == Head(rows)
         IN  IF In(watch.Kod, ids)
             THEN LET s == StockOf(watch.Kolichestvo)
                  IN  IF s.err # "none"
                      THEN [err |-> s.err, stocks |-> acc, offer_ids |-> ids]
                      ELSE StocksLoop(Tail(rows),
                                      AfterMatch(ids, watch.Kod),
                                      Append(acc, [offer_id |-> watch.Kod, stock |-> s.stock]))
             ELSE StocksLoop(Tail(rows), ids, acc)

\* the second for-loop: zero stock for what is left in offer_ids
ZeroFill(ids) == [i \in DOMAIN ids |-> [offer_id |-> ids[i], stock |-> 0]]

\* result: the returned list, the state the argument list is left in, the exception
create_stocks(rows, ids) ==
    LET r == StocksLoop(rows, ids, <<>>)
    IN  IF r.err # "none" THEN r
        ELSE [err |-> "none", stocks |-> r.stocks \o ZeroFill(r.offer_ids), offer_ids |-> r.offer_ids]

(***************************************************************************)
(* create_prices                                                           *)
(***************************************************************************)
PriceEntry(watch) ==
    [auto_action_enabled |-> "UNKNOWN",
     currency_code |-> "RUB",
     offer_id |-> watch.Kod,
     old_price |-> "0",
     price |-> price_conversion(watch.Cena)]

\* mutation: a price entry for every vendor row
create_prices_unfiltered(rows, ids) == [i \in DOMAIN rows |-> PriceEntry(rows[i])]

RECURSIVE create_prices(_, _)
create_prices(rows, ids) ==
    IF Len(rows) = 0 THEN <<>>
    ELSE IF In(Head(rows).Kod, ids)
         THEN <<PriceEntry(Head(rows))>> \o create_prices(Tail(rows), ids)
         ELSE create_prices(Tail(rows), ids)

(***************************************************************************)
(* divide                                                                  *)
(***************************************************************************)
\* range(0, stop, step) as the list of its values; step = 0 is rejected by the caller
RECURSIVE RangeFrom(_, _, _)
RangeFrom(i, stop, step) ==
    IF step > 0 /\ i < stop THEN <<i>> \o RangeFrom(i + step, stop, step)
    ELSE IF step < 0 /\ i > stop THEN <<i>> \o RangeFrom(i + step, stop, step)
    ELSE <<>>

\* mutation: the slice stops one element early
ChunkAtShort(lst, i, n) == Slice(lst, i, i + n - 1)

\* lst[i : i + n]
ChunkAt(lst, i, n) == Slice(lst, i, i + n)

\* list(divide(lst, n)): the chunks in the order yielded, or the exception
divide(lst, n) ==
    IF n = 0 THEN [err |-> "ValueError", chunks |-> <<>>]
    ELSE LET starts == RangeFrom(0, Len(lst), n)
         IN  [err |-> "none", chunks |-> [k \in DOMAIN starts |-> ChunkAt(lst, starts[k], n)]]

(***************************************************************************)
(* Inputs of the pure functions                                            *)
(***************************************************************************)
MarketIds == {"123", "124", "125"}
Codes == {"123", "124", "999"}
TWELVE == <<"1", "2">>
NET == <<"n", "e", "t">>          \* a cell that is no number
Quantities == {GT10, ONE, TWELVE, NET}
PRICE_5990 == <<"5", "'", "9", "9", "0", ".", "0", "0", " ", "r", "u", "b", ".">>
PRICE_12 == <<"1", "2">>
Prices == {PRICE_5990, PRICE_12}

Rows == [Kod : Codes, Kolichestvo : Quantities, Cena : Prices]

SeqsUpTo(S, n) == UNION {[1..k -> S] : k \in 0..n}

Feeds == SeqsUpTo(Rows, MaxRows)

\* lists of distinct marketplace identifiers, in every order
KnownLists == {s \in SeqsUpTo(MarketIds, Cardinality(MarketIds)) : NoDup(s)}

Items == {"a", "b"}

NotCalled == [fn |-> "none"]

\* the program has not started
ProgramIdle ==
    /\ pc = "idle"
    /\ srv = [mode |-> "consistent", total |-> 0]
    /\ last_id = ""
    /\ product_list = <<>>
    /\ offer_ids = <<>>
    /\ requests = <<>>
    /\ responses = <<>>
    /\ list_calls = 0
    /\ file_exists = FALSE
    /\ watch_remnants = <<>>
    /\ stocks = <<>>
    /\ prices = <<>>
    /\ pending = <<>>
    /\ market = [stocks |-> <<>>, prices |-> <<>>]
    /\ calls = <<>>
    /\ caught = "none"

programVars == <<pc, srv, last_id, product_list, offer_ids, requests, responses,
                 list_calls, file_exists, watch_remnants, stocks, prices,
                 pending, market, calls, caught>>

(***************************************************************************)
(* The reconciler functions applied to arbitrary inputs                    *)
(***************************************************************************)
InitRecon ==
    /\ args \in [rows : Feeds, ids : KnownLists]
    /\ ret = NotCalled
    /\ ProgramIdle

ApplyCreateStocks ==
    /\ ret = NotCalled
    /\ "rows" \in DOMAIN args
    /\ LET r == create_stocks(args.rows, args.ids)
       IN  ret' = [fn |-> "create_stocks", err |-> r.err, stocks |-> r.stocks,
                   offer_ids |-> r.offer_ids]
    /\ UNCHANGED <<args, programVars>>

ApplyCreatePrices ==
    /\ ret = NotCalled
    /\ "rows" \in DOMAIN args
    /\ ret' = [fn |-> "create_prices", prices |-> create_prices(args.rows, args.ids)]
    /\ UNCHANGED <<args, programVars>>

NextRecon == ApplyCreateStocks \/ ApplyCreatePrices

SpecRecon == InitRecon /\ [][NextRecon]_vars

(***************************************************************************)
(* divide applied to arbitrary inputs                                      *)
(***************************************************************************)
InitDivide ==
    /\ args \in [lst : SeqsUpTo(Items, MaxLen), n : (-MaxN)..MaxN]
    /\ ret = NotCalled
    /\ ProgramIdle

ApplyDivide ==
    /\ ret = NotCalled
    /\ "lst" \in DOMAIN args
    /\ LET r == divide(args.lst, args.n)
       IN  ret' = [fn |-> "divide", err |-> r.err, chunks |-> r.chunks]
    /\ UNCHANGED <<args, programVars>>

NextDivide == ApplyDivide

SpecDivide == InitDivide /\ [][NextDivide]_vars

(***************************************************************************)
(* The marketplace behind POST /v2/product/list                            *)
(***************************************************************************)
Limit == 1000
StockChunk == 100
PriceChunk == 900

MaxTotal == 2500    \* largest catalogue of a consistent marketplace (get_offer_ids alone)
MaxKnown == 101     \* largest catalogue of a consistent marketplace (whole run)
MaxFeed == 1        \* vendor rows read by download_stock in a whole run
MaxBadTotal == 2    \* largest total reported by an inconsistent marketplace
BadPage == 2        \* largest page served by an inconsistent marketplace
MaxAccum == 3       \* an inconsistent marketplace stops serving items at this many
CallCap == 4        \* the histories of list calls stop growing here

\* the i-th product of the catalogue
Product(i) == [product_id |-> i, offer_id |-> ToString(122 + i)]

\* the cursor the marketplace hands out for "i products served"
CursorOf(i) == IF i = 0 THEN "" ELSE ToString(i)

\* a marketplace that reports its true total and serves the page after the cursor
ConsistentPage(total, payload) ==
    LET pos == CHOOSE i \in 0..total : CursorOf(i) = payload.last_id
        n == Min(payload.limit, total - pos)
    IN  [items |-> [k \in 1..n |-> Product(pos + k)],
         total |-> total,
         last_id |-> CursorOf(pos + n)]

\* a marketplace whose total is unrelated to what it serves
InconsistentPages(total, served) ==
    {[items |-> [k \in 1..n |-> Product(k)], total |-> total, last_id |-> c] :
        n \in 0..Min(BadPage, MaxAccum - served), c \in {"", "1"}}

Serve(s, payload, served) ==
    IF s.mode = "consistent" THEN {ConsistentPage(s.total, payload)}
    ELSE InconsistentPages(s.total, served)

Marketplaces(maxTotal) ==
    {[mode |-> "consistent", total |-> t] : t \in 0..maxTotal}
        \cup {[mode |-> "inconsistent", total |-> t] : t \in 0..MaxBadTotal}

(***************************************************************************)
(* main: exception handling                                                *)
(***************************************************************************)
NetworkErrors == {"ReadTimeout", "ConnectionError", "HTTPError"}

\* the except clause that handles an exception
ExceptClause(kind) ==
    IF kind = "ReadTimeout" THEN "timeout"
    ELSE IF kind = "ConnectionError" THEN "connection"
    ELSE "ERROR_2"

\* mutation: the exception is reported and the run goes on
RaiseAndResume(kind) ==
    /\ pc' = pc
    /\ caught' = ExceptClause(kind)

\* an exception raised inside the try block: reported, main returns
Raise(kind) ==
    /\ pc' = "done"
    /\ caught' = ExceptClause(kind)

(***************************************************************************)
(* get_offer_ids                                                           *)
(***************************************************************************)
\* mutation: every request starts from the beginning
SentCursorEmpty(last) == ""

\* the last_id argument of get_product_list
SentCursor(last) == last

\* the request body built by get_product_list
Payload(last) == [visibility |-> "ALL", last_id |-> last, limit |-> Limit]

\* the test that leaves the while loop
LoopDone(total, products) == total = Len(products)

Note(history, x) == IF Len(history) < CallCap THEN Append(history, x) ELSE history

\* one iteration of the while loop whose request succeeds; the last iteration
\* also builds and returns offer_ids
ListCall ==
    /\ pc = "get_offer_ids"
    /\ \E some_prod \in Serve(srv, Payload(SentCursor(last_id)), Len(product_list)) :
        LET acc == product_list \o some_prod.items
        IN  /\ product_list' = acc
            /\ last_id' = some_prod.last_id
            /\ requests' = Note(requests, SentCursor(last_id))
            /\ responses' = Note(responses, some_prod.last_id)
            /\ IF LoopDone(some_prod.total, acc)
               THEN /\ offer_ids' = [j \in DOMAIN acc |-> acc[j].offer_id]
                    /\ pc' = "download_stock"
               ELSE UNCHANGED <<offer_ids, pc>>
    /\ list_calls' = Min(list_calls + 1, CallCap)
    /\ UNCHANGED <<args, ret, srv, file_exists, watch_remnants, stocks, prices,
                   pending, market, calls, caught>>

\* an iteration whose request fails (raise_for_status or the transport)
ListFail ==
    /\ pc = "get_offer_ids"
    /\ \E kind \in NetworkErrors : Raise(kind)
    /\ requests' = Note(requests, SentCursor(last_id))
    /\ list_calls' = Min(list_calls + 1, CallCap)
    /\ UNCHANGED <<args, ret, srv, last_id, product_list, offer_ids, responses,
                   file_exists, watch_remnants, stocks, prices, pending, market, calls>>

ProgramStart ==
    /\ args = <<>>
    /\ ret = NotCalled
    /\ pc = "get_offer_ids"
    /\ last_id = ""
    /\ product_list = <<>>
    /\ offer_ids = <<>>
    /\ requests = <<>>
    /\ responses = <<>>
    /\ list_calls = 0
    /\ file_exists = FALSE
    /\ watch_remnants = <<>>
    /\ stocks = <<>>
    /\ prices = <<>>
    /\ pending = <<>>
    /\ market = [stocks |-> <<>>, prices |-> <<>>]
    /\ calls = <<>>
    /\ caught = "none"

InitPage ==
    /\ srv \in Marketplaces(MaxTotal)
    /\ ProgramStart

NextPage == ListCall \/ ListFail

\* main up to the return of get_offer_ids
SpecPage == InitPage /\ [][NextPage]_vars

InitPageFair ==
    /\ srv \in Marketplaces(MaxKnown)
    /\ ProgramStart

\* get_offer_ids under an interpreter that keeps executing the loop
SpecPageFair == InitPageFair /\ [][NextPage]_vars /\ WF_vars(ListCall)

(***************************************************************************)
(* download_stock                                                          *)
(***************************************************************************)
FeedsMain == SeqsUpTo(Rows, MaxFeed)

\* session.get and raise_for_status succeed
DownloadGet ==
    /\ pc = "download_stock"
    /\ calls' = Append(calls, [op |-> "download", batch |-> 0])
    /\ pc' = "extract"
    /\ UNCHANGED <<args, ret, srv, last_id, product_list, offer_ids, requests,
                   responses, list_calls, file_exists, watch_remnants, stocks,
                   prices, pending, market, caught>>

DownloadFail ==
    /\ pc = "download_stock"
    /\ calls' = Append(calls, [op |-> "download", batch |-> 0])
    /\ \E kind \in NetworkErrors : Raise(kind)
    /\ UNCHANGED <<args, ret, srv, last_id, product_list, offer_ids, requests,
                   responses, list_calls, file_exists, watch_remnants, stocks,
                   prices, pending, market>>

\* archive.extractall("."): ostatki.xls is written
Extract ==
    /\ pc = "extract"
    /\ file_exists' = TRUE
    /\ pc' = "read_excel"
    /\ UNCHANGED <<args, ret, srv, last_id, product_list, offer_ids, requests,
                   responses, list_calls, watch_remnants, stocks, prices,
                   pending, market, calls, caught>>

\* the response body is no zip archive: nothing is written
ExtractFail ==
    /\ pc = "extract"
    /\ Raise("BadZipFile")
    /\ UNCHANGED <<args, ret, srv, last_id, product_list, offer_ids, requests,
                   responses, list_calls, file_exists, watch_remnants, stocks,
                   prices, pending, market, calls>>

\* pd.read_excel(...).to_dict(orient="records") succeeds
ReadExcel ==
    /\ pc = "read_excel"
    /\ watch_remnants' \in FeedsMain
    /\ pc' = "remove"
    /\ UNCHANGED <<args, ret, srv, last_id, product_list, offer_ids, requests,
                   responses, list_calls, file_exists, stocks, prices, pending,
                   market, calls, caught>>

\* pd.read_excel raises: the exception leaves download_stock at once
ReadExcelFail ==
    /\ pc = "read_excel"
    /\ Raise("ValueError")
    /\ UNCHANGED <<args, ret, srv, last_id, product_list, offer_ids, requests,
                   responses, list_calls, file_exists, watch_remnants, stocks,
                   prices, pending, market, calls>>

\* os.remove("./ostatki.xls"); return watch_remnants
RemoveFile ==
    /\ pc = "remove"
    /\ file_exists' = FALSE
    /\ pc' = "create_stocks"
    /\ UNCHANGED <<args, ret, srv, last_id, product_list, offer_ids, requests,
                   responses, list_calls, watch_remnants, stocks, prices,
                   pending, market, calls, caught>>

(***************************************************************************)
(* main: stocks, then prices                                               *)
(***************************************************************************)
\* stocks = create_stocks(watch_remnants, offer_ids); list(divide(stocks, 100))
CreateStocks ==
    /\ pc = "create_stocks"
    /\ LET r == create_stocks(watch_remnants, offer_ids)
       IN  /\ offer_ids' = r.offer_ids
           /\ IF r.err = "none"
              THEN /\ stocks' = r.stocks
                   /\ pending' = divide(r.stocks, StockChunk).chunks
                   /\ pc' = "update_stocks"
                   /\ UNCHANGED caught
              ELSE /\ Raise(r.err)
                   /\ UNCHANGED <<stocks, pending>>
    /\ UNCHANGED <<args, ret, srv, last_id, product_list, requests, responses,
                   list_calls, file_exists, watch_remnants, prices, market, calls>>

\* update_stocks(some_stock, ...) succeeds
UpdateStocks ==
    /\ pc = "update_stocks"
    /\ pending # <<>>
    /\ calls' = Append(calls, [op |-> "update_stocks", batch |-> Len(market.stocks) + 1])
    /\ market' = [market EXCEPT !.stocks = Append(@, Head(pending))]
    /\ pending' = Tail(pending)
    /\ UNCHANGED <<args, ret, pc, srv, last_id, product_list, offer_ids, requests,
                   responses, list_calls, file_exists, watch_remnants, stocks,
                   prices, caught>>

UpdateStocksFail ==
    /\ pc = "update_stocks"
    /\ pending # <<>>
    /\ calls' = Append(calls, [op |-> "update_stocks", batch |-> Len(market.stocks) + 1])
    /\ \E kind \in NetworkErrors : Raise(kind)
    /\ UNCHANGED <<args, ret, srv, last_id, product_list, offer_ids, requests,
                   responses, list_calls, file_exists, watch_remnants, stocks,
                   prices, pending, market>>

\* prices = create_prices(watch_remnants, offer_ids); list(divide(prices, 900))
CreatePrices ==
    /\ pc = "update_stocks"
    /\ pending = <<>>
    /\ LET p == create_prices(watch_remnants, offer_ids)
       IN  /\ prices' = p
           /\ pending' = divide(p, PriceChunk).chunks
    /\ pc' = "update_price"
    /\ UNCHANGED <<args, ret, srv, last_id, product_list, offer_ids, requests,
                   responses, list_calls, file_exists, watch_remnants, stocks,
                   market, calls, caught>>

\* update_price(some_price, ...) succeeds
UpdatePrice ==
    /\ pc = "update_price"
    /\ pending # <<>>
    /\ calls' = Append(calls, [op |-> "update_price", batch |-> Len(market.prices) + 1])
    /\ market' = [market EXCEPT !.prices = Append(@, Head(pending))]
    /\ pending' = Tail(pending)
    /\ UNCHANGED <<args, ret, pc, srv, last_id, product_list, offer_ids, requests,
                   responses, list_calls, file_exists, watch_remnants, stocks,
                   prices, caught>>

UpdatePriceFail ==
    /\ pc = "update_price"
    /\ pending # <<>>
    /\ calls' = Append(calls, [op |-> "update_price", batch |-> Len(market.prices) + 1])
    /\ \E kind \in NetworkErrors : Raise(kind)
    /\ UNCHANGED <<args, ret, srv, last_id, product_list, offer_ids, requests,
                   responses, list_calls, file_exists, watch_remnants, stocks,
                   prices, pending, market>>

\* the try block ends without an exception
Finish ==
    /\ pc = "update_price"
    /\ pending = <<>>
    /\ pc' = "done"
    /\ UNCHANGED <<args, ret, srv, last_id, product_list, offer_ids, requests,
                   responses, list_calls, file_exists, watch_remnants, stocks,
                   prices, pending, market, calls, caught>>

InitMain ==
    /\ srv \in Marketplaces(MaxKnown)
    /\ ProgramStart

NextMain ==
    \/ ListCall \/ ListFail
    \/ DownloadGet \/ DownloadFail
    \/ Extract \/ ExtractFail
    \/ ReadExcel \/ ReadExcelFail
    \/ RemoveFile
    \/ CreateStocks
    \/ UpdateStocks \/ UpdateStocksFail
    \/ CreatePrices
    \/ UpdatePrice \/ UpdatePriceFail
    \/ Finish

Spec == InitMain /\ [][NextMain]_vars

(***************************************************************************)
(* Properties of the reconciler                                            *)
(***************************************************************************)
IdsOf(entries) == [i \in DOMAIN entries |-> entries[i].offer_id]

CodesOf(rows) == {rows[i].Kod : i \in DOMAIN rows}

FirstRow(rows, code) ==
    rows[CHOOSE i \in DOMAIN rows : rows[i].Kod = code /\ \A j \in 1..(i - 1) : rows[j].Kod # code]

ValidQuantity(q) == q = GT10 \/ q = ONE \/ IsIntLiteral(q)

MappedQuantity(q) == IF q = GT10 THEN 100 ELSE IF q = ONE THEN 0 ELSE IntOf(q)

StocksCalled == ret.fn = "create_stocks"
PricesCalled == ret.fn = "create_prices"

\* C2: create_stocks(V, K) lists exactly the identifiers of K, each once; the
\* stock of an identifier is the mapped quantity of the first vendor row with
\* that code (">10" -> 100, "1" -> 0, otherwise the parsed integer), and 0
\* when no row has the code.
C2_StocksCoverKnown ==
    StocksCalled =>
        /\ (\A i \in DOMAIN args.rows : ValidQuantity(args.rows[i].Kolichestvo)) => ret.err = "none"
        /\ ret.err = "none" =>
            /\ Range(IdsOf(ret.stocks)) = Range(args.ids)
            /\ NoDup(IdsOf(ret.stocks))
            /\ \A i \in DOMAIN ret.stocks :
                  LET e == ret.stocks[i]
                  IN  e.stock = IF e.offer_id \in CodesOf(args.rows)
                                THEN MappedQuantity(FirstRow(args.rows, e.offer_id).Kolichestvo)
                                ELSE 0

\* C2 witness: duplicate rows for a known code, a row outside K, a known
\* identifier without a row.
C2_Witness ==
    /\ StocksCalled
    /\ args.ids = <<"124", "123", "125">>
    /\ Len(args.rows) = 2
    /\ args.rows[1].Kod = "123" /\ args.rows[1].Kolichestvo = TWELVE
    /\ args.rows[2].Kod = "123" /\ args.rows[2].Kolichestvo = GT10
    /\ ret.err = "none"
    /\ ret.stocks = <<[offer_id |-> "123", stock |-> 12],
                      [offer_id |-> "124", stock |-> 0],
                      [offer_id |-> "125", stock |-> 0]>>

\* C3: each identifier appears at most once in the list produced by
\* create_stocks and at most once in the list produced by create_prices.
C3_AtMostOncePerList ==
    /\ (StocksCalled /\ ret.err = "none") => NoDup(IdsOf(ret.stocks))
    /\ PricesCalled => NoDup(IdsOf(ret.prices))

\* C4: the identifiers of create_prices(V, K) are exactly those of K that are
\* a code of some row of V; every entry carries the three fixed fields.
C4_PricesOnlyMatched ==
    PricesCalled =>
        /\ Range(IdsOf(ret.prices)) = Range(args.ids) \cap CodesOf(args.rows)
        /\ \A i \in DOMAIN ret.prices :
              /\ ret.prices[i].auto_action_enabled = "UNKNOWN"
              /\ ret.prices[i].currency_code = "RUB"
              /\ ret.prices[i].old_price = "0"

\* C4 witness: "124" is known but has no row, "999" has a row but is unknown.
C4_Witness ==
    /\ PricesCalled
    /\ args.ids = <<"123", "124">>
    /\ Len(args.rows) = 2
    /\ args.rows[1].Kod = "999"
    /\ args.rows[2].Kod = "123" /\ args.rows[2].Cena = PRICE_5990
    /\ ret.prices = <<[auto_action_enabled |-> "UNKNOWN", currency_code |-> "RUB",
                       offer_id |-> "123", old_price |-> "0",
                       price |-> <<"5", "9", "9", "0">>]>>

(***************************************************************************)
(* Properties of divide                                                    *)
(***************************************************************************)
RECURSIVE Concat(_)
Concat(ss) == IF Len(ss) = 0 THEN <<>> ELSE Head(ss) \o Concat(Tail(ss))

DivideCalled == ret.fn = "divide"

\* C5: for n > 0 the chunks of divide(items, n), concatenated in order, equal
\* items; every chunk but the last has n elements, the last has 1..n;
\* divide([], n) yields no chunk.
C5_ChunksPartition ==
    (DivideCalled /\ args.n > 0) =>
        /\ ret.err = "none"
        /\ Concat(ret.chunks) = args.lst
        /\ \A k \in DOMAIN ret.chunks :
              /\ k < Len(ret.chunks) => Len(ret.chunks[k]) = args.n
              /\ Len(ret.chunks[k]) >= 1 /\ Len(ret.chunks[k]) <= args.n
        /\ args.lst = <<>> => ret.chunks = <<>>

\* C5 witness: a short last chunk.
C5_Witness ==
    /\ DivideCalled
    /\ args.lst = <<"a", "b", "b">> /\ args.n = 2
    /\ ret.chunks = <<(<<"a", "b">>), (<<"b">>)>>

\* C6: for n <= 0, divide(items, n) fails with an invalid-argument error.
C6_NonPositiveSizeRejected ==
    (DivideCalled /\ args.n <= 0) => ret.err = "ValueError"

(***************************************************************************)
(* Properties of get_offer_ids                                             *)
(***************************************************************************)
CeilDiv(a, b) == (a + b - 1) \div b

Returned == pc = "download_stock"

\* C7: against a marketplace with a consistent total T >= 1, get_offer_ids
\* starts with the empty cursor, passes to each later list call the last_id
\* of the previous response, issues exactly ceil(T/1000) list calls and
\* returns exactly T identifiers, one per listed product, without duplicates.
C7_Pagination ==
    (srv.mode = "consistent" /\ srv.total >= 1) =>
        /\ Len(requests) >= 1 => requests[1] = ""
        /\ \A i \in 2..Len(requests) : requests[i] = responses[i - 1]
        /\ Returned =>
            /\ list_calls = CeilDiv(srv.total, 1000)
            /\ Len(offer_ids) = srv.total
            /\ Cardinality(Range(offer_ids)) = srv.total
            /\ Range(offer_ids) = {Product(i).offer_id : i \in 1..srv.total}

\* C7 witness: 2500 products fetched with three list calls.
C7_Witness ==
    /\ srv = [mode |-> "consistent", total |-> 2500]
    /\ Returned
    /\ list_calls = 3
    /\ requests = <<"", "1000", "2000">>
    /\ Len(offer_ids) = 2500

\* C8: get_offer_ids always terminates, also when the reported total never
\* equals the number of accumulated items.
C8_Terminates == <>(pc # "get_offer_ids")

(***************************************************************************)
(* Properties of main                                                      *)
(***************************************************************************)
\* the identifiers get_offer_ids returned, before create_stocks touched the list
Known == [j \in DOMAIN product_list |-> product_list[j].offer_id]

IsPrefix(s, t) == Len(s) <= Len(t) /\ \A i \in DOMAIN s : s[i] = t[i]

Completed == pc = "done" /\ caught = "none"

\* C1: a complete run submits a price entry for exactly the identifiers that
\* are both known and a code of a vendor row; for K = {"123","124"} and the
\* single row ("123", ">10", "5'990.00 ...") it submits the stocks
\* {"123":100, "124":0} and the price list [{offer_id "123", price "5990"}].
C1_RunSubmitsMatchedPrices ==
    (Completed /\ NoDup(Known)) =>
        /\ Range(IdsOf(Concat(market.prices))) = Range(Known) \cap CodesOf(watch_remnants)
        /\ (/\ Known = <<"123", "124">>
            /\ watch_remnants = <<[Kod |-> "123", Kolichestvo |-> GT10, Cena |-> PRICE_5990]>>) =>
              /\ Range(Concat(market.stocks)) =
                    {[offer_id |-> "123", stock |-> 100], [offer_id |-> "124", stock |-> 0]}
              /\ Len(Concat(market.prices)) = 1
              /\ Concat(market.prices)[1].offer_id = "123"
              /\ Concat(market.prices)[1].price = <<"5", "9", "9", "0">>

\* C9: an exception inside the run is caught and main returns; no step of
\* the run follows it, no batch is submitted twice, and what the marketplace
\* has applied is never taken back.
C9_FailureContained ==
    /\ [](/\ caught # "none" => pc = "done"
          /\ NoDup(calls)
          /\ IsPrefix(market.stocks, divide(stocks, 100).chunks)
          /\ IsPrefix(market.prices, divide(prices, 900).chunks))
    /\ [][/\ caught = "none"
          /\ IsPrefix(market.stocks, market'.stocks)
          /\ IsPrefix(market.prices, market'.prices)]_vars

\* C9 witness: the second stock batch failed after the first was applied.
C9_Witness ==
    /\ pc = "done"
    /\ caught = "connection"
    /\ Len(market.stocks) = 1
    /\ Len(market.stocks[1]) = 100
    /\ calls = <<[op |-> "download", batch |-> 0],
                 [op |-> "update_stocks", batch |-> 1],
                 [op |-> "update_stocks", batch |-> 2]>>

\* C10: outside the span between extraction and os.remove, ostatki.xls does
\* not exist: no exit path of download_stock leaves the file behind.
C10_NoFileLeftBehind == (pc \notin {"read_excel", "remove"}) => ~file_exists

====
